---- MODULE Spec2Model ----
(***************************************************************************)
(* Model of the ingestion core of cognitive-performance-analyzer:          *)
(* the loaders of src/src/loaders/load.py acting on the store declared by  *)
(* src/setup_database.py, and the orchestrators of src/src/run_pipeline.py *)
(* and src/src/ingest.py.                                                  *)
(*                                                                         *)
(* A measurement row is <<person_id, timestamp, env, beh>>: env stands for *)
(* the 16 environmental columns, which the upsert statement writes         *)
(* together from one record, and beh for the 12 behavioral columns, which  *)
(* the update statement writes together from one record.                   *)
(***************************************************************************)
EXTENDS Integers, Sequences, FiniteSets, TLC

\* ---------------------------------------------------------------- bounds
MaxBatch == 2   \* longest batch handed to a loader
MaxTs    == 2   \* timestamps are the hours 1..MaxTs
MaxVal   == 2   \* column values are 1..MaxVal
MaxRerunBatch == 1  \* longest batch that is handed to a loader again
MaxReruns == 2  \* times a batch is handed to a loader again
MaxRead  == 1   \* most records a reader returns in a pipeline run
MaxChecked == 3 \* longest batch handed to validate_batch on its own

\* ------------------------------------------------------------ the store
\* SQL NULL / Python None: the value of a column that was never written.
NoneVal == 0

\* The seeded subject and a name the store does not know.
Names == {"Alice", "Bob"}

\* 'person' key absent from a record.
NoPerson == "none"

\* person_id values a record may carry: 0 is "key absent" (falsy), 1 is a
\* subject of the store, 3 is an id no subject has.
RecordPersonIds == {0, 1, 3}

\* persons table after create_tables and one seeded subject.
SeededPersons == {[person_id |-> 1, name |-> "Alice"]}

\* Input records: a record names its subject or carries a person_id.
Records ==
    {[person |-> n, person_id |-> 0, timestamp |-> t, val |-> v] :
        n \in Names, t \in 1..MaxTs, v \in 1..MaxVal}
    \cup
    {[person |-> NoPerson, person_id |-> p, timestamp |-> t, val |-> v] :
        p \in RecordPersonIds \ {0}, t \in 1..MaxTs, v \in 1..MaxVal}

Batches == UNION {[1..n -> Records] : n \in 0..MaxBatch}

\* Reasons the loaders give.
ResolveError == "Could not resolve person_id for record"
OrderError == "No measurement row exists. External factors must be loaded first."
TableName == "measurements"

\* Error texts of the store (str(e) of the psycopg2 exception).
ErrCursor == "cursor failed"
ErrSelect == "select failed"
ErrWrite == "write failed"
ErrCommit == "commit failed"
ErrForeignKey == "violates foreign key constraint"
ErrCardinality == "ON CONFLICT DO UPDATE command cannot affect row a second time"
NoErr == ""

VARIABLES
    persons,        \* persons table: set of [person_id, name]
    measurements,   \* measurements table: set of rows
    person_cache,   \* _person_cache: set of [name, person_id]
    last,           \* the loader call that just returned, with its result
    prev,           \* summaries of the calls before it, oldest first
    reruns,         \* times the batch of the first call was handed in again
    pc,             \* position of run_pipeline
    variant,        \* the orchestrator that runs: "run_pipeline" or "ingest"
    flow_i,         \* index of the flow being processed
    raw,            \* raw records the current flow read
    flows,          \* per flow: what its loader was given and returned
    all_stats,      \* stats of the finished flows, in order
    all_rejected,   \* rejections of the finished flows, in order
    events,         \* reader and loader invocations, in order
    stg_rejects,    \* rows of the rejection table
    summary,        \* what run_pipeline returns
    raised,         \* exceptions raised during the run, in order
    log_call,       \* the call of log_rejected_records and what it returned
    fcall           \* the function called on its own: arguments and outcome

lvars == <<last, prev, reruns>>
pvars == <<pc, variant, flow_i, raw, flows, all_stats, all_rejected, events,
           stg_rejects, summary, raised, log_call, fcall>>
vars == <<persons, measurements, person_cache, last, prev, reruns,
          pc, variant, flow_i, raw, flows, all_stats, all_rejected, events,
          stg_rejects, summary, raised, log_call, fcall>>

\* ------------------------------------------------------- store helpers
HasRow(ms, pid, ts) == \E row \in ms : row.person_id = pid /\ row.timestamp = ts

RowsAt(ms, pid, ts) == {row \in ms : row.person_id = pid /\ row.timestamp = ts}

Keys(ms) == {<<row.person_id, row.timestamp>> : row \in ms}

PersonIds(ps) == {p.person_id : p \in ps}

\* _person_cache.get(name): 0 when the name is not cached.
CacheGet(cache, name) ==
    IF \E c \in cache : c.name = name
    THEN (CHOOSE c \in cache : c.name = name).person_id
    ELSE 0

\* _load_all_persons_to_cache: every row of persons overwrites its entry.
LoadAllPersonsToCache(cache, ps) ==
    {c \in cache : ~ \E p \in ps : p.name = c.name}
    \cup {[name |-> p.name, person_id |-> p.person_id] : p \in ps}

\* record.get('person_id'), else the cached id of record['person'].
ResolvePersonId(cache, record) ==
    IF record.person_id # 0 THEN record.person_id
    ELSE IF record.person # NoPerson THEN CacheGet(cache, record.person)
    ELSE 0

\* The resolution loop shared by both loaders: indices of the records that
\* resolve, in input order.
RECURSIVE ResolvedIdx(_, _, _)
ResolvedIdx(cache, records, i) ==
    IF i > Len(records) THEN <<>>
    ELSE IF ResolvePersonId(cache, records[i]) # 0
         THEN <<i>> \o ResolvedIdx(cache, records, i + 1)
         ELSE ResolvedIdx(cache, records, i + 1)

\* record['person_id'] = person_id: the record as the loop leaves it.
WithPersonId(cache, record) ==
    [record EXCEPT !.person_id = ResolvePersonId(cache, record)]

\* A wrapped rejection {'record', 'error', 'table'}; idx is the position of
\* the record in the input batch (the identity of the dict).
Reject(i, record, error) ==
    [idx |-> i, record |-> record, error |-> error, table |-> TableName,
     wrapped |-> TRUE]

\* An input record returned as it is in place of a rejection (return 0, records).
RawReject(i, record) ==
    [idx |-> i, record |-> record, error |-> NoErr, table |-> NoErr,
     wrapped |-> FALSE]

\* The loop with a bare "continue": unresolved records are dropped.
ResolveRejects_Drops(cache, records, i) == <<>>

RECURSIVE ResolveRejects(_, _, _)
ResolveRejects(cache, records, i) ==
    IF i > Len(records) THEN <<>>
    ELSE IF ResolvePersonId(cache, records[i]) = 0
         THEN <<Reject(i, records[i], ResolveError)>>
              \o ResolveRejects(cache, records, i + 1)
         ELSE ResolveRejects(cache, records, i + 1)

\* ------------------------------------------------- upsert statement
\* The statement without its ON CONFLICT clause on a table without the
\* UNIQUE constraint: every proposed row is appended.
InsertOnConflict_AlwaysInsert(ms, pid, ts, env) ==
    ms \cup {[person_id |-> pid, timestamp |-> ts, env |-> env, beh |-> NoneVal]}

\* ON CONFLICT DO NOTHING: the row that is there wins.
InsertOnConflict_DoNothing(ms, pid, ts, env) ==
    IF HasRow(ms, pid, ts) THEN ms
    ELSE ms \cup {[person_id |-> pid, timestamp |-> ts, env |-> env,
                   beh |-> NoneVal]}

\* DO UPDATE SET naming the behavioral columns too: the row is replaced.
InsertOnConflict_Replace(ms, pid, ts, env) ==
    {row \in ms : ~ (row.person_id = pid /\ row.timestamp = ts)}
    \cup {[person_id |-> pid, timestamp |-> ts, env |-> env, beh |-> NoneVal]}

\* INSERT ... ON CONFLICT (person_id, timestamp) DO UPDATE SET <env columns>
\* for one proposed row.
InsertOnConflict(ms, pid, ts, env) ==
    IF HasRow(ms, pid, ts)
    THEN {IF row.person_id = pid /\ row.timestamp = ts
          THEN [row EXCEPT !.env = env] ELSE row : row \in ms}
    ELSE ms \cup {[person_id |-> pid, timestamp |-> ts, env |-> env,
                   beh |-> NoneVal]}

RECURSIVE InsertAll(_, _, _, _, _)
InsertAll(ms, cache, records, idx, k) ==
    IF k > Len(idx) THEN ms
    ELSE LET r == records[idx[k]] IN
         InsertAll(InsertOnConflict(ms, ResolvePersonId(cache, r),
                                    r.timestamp, r.val),
                   cache, records, idx, k + 1)

\* The statement on a table whose person_id column references nothing.
UpsertStatementError_NoForeignKey(ps, cache, records, idx) ==
    IF \E j, k \in 1..Len(idx) :
          /\ j < k
          /\ ResolvePersonId(cache, records[idx[j]])
               = ResolvePersonId(cache, records[idx[k]])
          /\ records[idx[j]].timestamp = records[idx[k]].timestamp
    THEN ErrCardinality
    ELSE NoErr

\* execute_values(cur, query, values): one INSERT statement for the batch.
\* The store refuses a person_id that references no subject and a statement
\* that proposes two rows for one key.
UpsertStatementError(ps, cache, records, idx) ==
    IF \E k \in 1..Len(idx) :
          ResolvePersonId(cache, records[idx[k]]) \notin PersonIds(ps)
    THEN ErrForeignKey
    ELSE IF \E j, k \in 1..Len(idx) :
               /\ j < k
               /\ ResolvePersonId(cache, records[idx[j]])
                    = ResolvePersonId(cache, records[idx[k]])
               /\ records[idx[j]].timestamp = records[idx[k]].timestamp
         THEN ErrCardinality
         ELSE NoErr

RECURSIVE AllRejects(_, _, _, _)
AllRejects(records, mutated, error, i) ==
    IF i > Len(records) THEN <<>>
    ELSE <<Reject(i, mutated[i], error)>>
         \o AllRejects(records, mutated, error, i + 1)

RECURSIVE RawRejects(_, _)
RawRejects(records, i) ==
    IF i > Len(records) THEN <<>>
    ELSE <<RawReject(i, records[i])>> \o RawRejects(records, i + 1)

\* --------------------------------------------------------- the loaders
\* Points at which the store can fail during a call. "noconn":
\* get_db_connection returns None; "cursor": conn.cursor() or the persons
\* query raises; "select": the existence query raises; "write": the bulk
\* statement raises; "commit": conn.commit() raises.
UpsertFails == {"none", "noconn", "cursor", "write", "commit"}
UpdateFails == {"none", "noconn", "cursor", "select", "write", "commit"}

\* The input dicts as the resolution loop leaves them.
Mutated(cache, records) ==
    [i \in 1..Len(records) |-> WithPersonId(cache, records[i])]

Result(ms, cache, count, rejected, err, tx) ==
    [measurements |-> ms, person_cache |-> cache, count |-> count,
     rejected |-> rejected, err |-> err, tx |-> tx]

\* A missing rollback: the writes of the failed transaction stay.
Rollback_KeepsWrites(before, written) == written

\* conn.rollback(): the table as it was when the transaction began.
Rollback(before, written) == before

\* upsert_measurement_external(records) -> (inserted, rejected)
upsert_measurement_external(ms, ps, cache, records, fail) ==
    IF records = <<>> THEN Result(ms, cache, 0, <<>>, NoErr, <<>>)
    ELSE IF fail = "noconn"
    THEN Result(ms, cache, 0, RawRejects(records, 1), NoErr, <<>>)
    ELSE IF fail = "cursor"
    THEN Result(ms, cache, 0, AllRejects(records, records, ErrCursor, 1),
                ErrCursor, <<"rollback", "close">>)
    ELSE
      LET cache2 == LoadAllPersonsToCache(cache, ps)
          valid_records == ResolvedIdx(cache2, records, 1)
          rejected == ResolveRejects(cache2, records, 1)
          stmtErr == IF valid_records = <<>> THEN NoErr
                     ELSE IF fail = "write" THEN ErrWrite
                     ELSE UpsertStatementError(ps, cache2, records, valid_records)
          inserted == IF valid_records # <<>> /\ stmtErr = NoErr
                      THEN Len(valid_records) ELSE 0
          err == IF stmtErr # NoErr THEN stmtErr
                 ELSE IF fail = "commit" THEN ErrCommit ELSE NoErr
          written == IF valid_records # <<>> /\ stmtErr = NoErr
                     THEN InsertAll(ms, cache2, records, valid_records, 1)
                     ELSE ms
      IN IF err = NoErr
         THEN Result(written, cache2, inserted, rejected, NoErr,
                     <<"commit", "close">>)
         ELSE Result(Rollback(ms, written), cache2, inserted,
                     rejected \o AllRejects(records, Mutated(cache2, records), err, 1),
                     err, <<"rollback", "close">>)

\* The existence query without its WHERE clause on the table: every
\* resolved key counts as existing.
GetExistingMeasurements_AllKeys(ms, cache, records, idx) ==
    {<<ResolvePersonId(cache, records[idx[k]]), records[idx[k]].timestamp>> :
        k \in 1..Len(idx)}

\* _get_existing_measurements(cur, records): the keys of the resolved
\* records that have a row.
GetExistingMeasurements(ms, cache, records, idx) ==
    {<<ResolvePersonId(cache, records[idx[k]]), records[idx[k]].timestamp>> :
        k \in {j \in 1..Len(idx) :
                 HasRow(ms, ResolvePersonId(cache, records[idx[j]]),
                        records[idx[j]].timestamp)}}

\* The existence loop: resolved records that have a row, in input order.
RECURSIVE ExistingIdx(_, _, _, _, _)
ExistingIdx(existing, cache, records, idx, k) ==
    IF k > Len(idx) THEN <<>>
    ELSE LET r == records[idx[k]] IN
         IF <<ResolvePersonId(cache, r), r.timestamp>> \in existing
         THEN <<idx[k]>> \o ExistingIdx(existing, cache, records, idx, k + 1)
         ELSE ExistingIdx(existing, cache, records, idx, k + 1)

RECURSIVE OrderRejects(_, _, _, _, _)
OrderRejects(existing, cache, records, idx, k) ==
    IF k > Len(idx) THEN <<>>
    ELSE LET r == records[idx[k]] IN
         IF <<ResolvePersonId(cache, r), r.timestamp>> \notin existing
         THEN <<Reject(idx[k], WithPersonId(cache, r), OrderError)>>
              \o OrderRejects(existing, cache, records, idx, k + 1)
         ELSE OrderRejects(existing, cache, records, idx, k + 1)

\* Keys staged in temp_user_updates.
StagedKeys(cache, records, valid) ==
    {<<ResolvePersonId(cache, records[valid[k]]), records[valid[k]].timestamp>> :
        k \in 1..Len(valid)}

\* UPDATE measurements m SET <behavioral columns> FROM temp_user_updates t
\* WHERE m.person_id = t.person_id AND m.timestamp = t.timestamp.
\* pick maps every staged key to the staged record the join uses for it:
\* when several staged rows match one measurement row the store uses one of
\* them, and which one is not determined.
JoinPicks(cache, records, valid) ==
    {pick \in [StagedKeys(cache, records, valid) -> 1..Len(records)] :
        \A key \in StagedKeys(cache, records, valid) :
            \E k \in 1..Len(valid) :
                /\ valid[k] = pick[key]
                /\ <<ResolvePersonId(cache, records[valid[k]]),
                     records[valid[k]].timestamp>> = key}

\* The UPDATE with an environmental column in its SET list.
UpdateFromStaged_TouchesEnv(ms, cache, records, valid, pick) ==
    {IF <<row.person_id, row.timestamp>> \in StagedKeys(cache, records, valid)
     THEN [row EXCEPT !.beh = records[pick[<<row.person_id, row.timestamp>>]].val,
                      !.env = records[pick[<<row.person_id, row.timestamp>>]].val]
     ELSE row : row \in ms}

\* The UPDATE adding the staged value to the column (SET c = m.c + t.c).
UpdateFromStaged_Adds(ms, cache, records, valid, pick) ==
    {IF <<row.person_id, row.timestamp>> \in StagedKeys(cache, records, valid)
     THEN [row EXCEPT !.beh = row.beh + records[pick[<<row.person_id, row.timestamp>>]].val]
     ELSE row : row \in ms}

UpdateFromStaged(ms, cache, records, valid, pick) ==
    {IF <<row.person_id, row.timestamp>> \in StagedKeys(cache, records, valid)
     THEN [row EXCEPT !.beh = records[pick[<<row.person_id, row.timestamp>>]].val]
     ELSE row : row \in ms}

\* cur.rowcount of the UPDATE: the measurement rows it matched.
RowCount(ms, cache, records, valid) ==
    Cardinality({row \in ms :
        <<row.person_id, row.timestamp>> \in StagedKeys(cache, records, valid)})

\* update_measurement_user_data(records) -> (updated, rejected): the set of
\* results the call can have.
update_measurement_user_data(ms, ps, cache, records, fail) ==
    IF records = <<>> THEN {Result(ms, cache, 0, <<>>, NoErr, <<>>)}
    ELSE IF fail = "noconn"
    THEN {Result(ms, cache, 0, RawRejects(records, 1), NoErr, <<>>)}
    ELSE IF fail = "cursor"
    THEN {Result(ms, cache, 0, <<>>, ErrCursor, <<"rollback", "close">>)}
    ELSE
      LET cache2 == LoadAllPersonsToCache(cache, ps)
          resolved_records == ResolvedIdx(cache2, records, 1)
          rejected1 == ResolveRejects(cache2, records, 1)
      IN IF resolved_records # <<>> /\ fail = "select"
         THEN {Result(ms, cache2, 0, rejected1, ErrSelect, <<"rollback", "close">>)}
         ELSE
           LET existing == GetExistingMeasurements(ms, cache2, records, resolved_records)
               valid_records == ExistingIdx(existing, cache2, records, resolved_records, 1)
               rejected == rejected1 \o
                   OrderRejects(existing, cache2, records, resolved_records, 1)
           IN IF valid_records # <<>> /\ fail = "write"
              THEN {Result(ms, cache2, 0, rejected, ErrWrite, <<"rollback", "close">>)}
              ELSE
                LET updated == IF valid_records = <<>> THEN 0
                               ELSE RowCount(ms, cache2, records, valid_records)
                IN IF fail = "commit"
                   THEN {Result(Rollback(ms, UpdateFromStaged(ms, cache2, records,
                                                             valid_records, pick)),
                                cache2, updated, rejected, ErrCommit,
                                <<"rollback", "close">>) :
                            pick \in JoinPicks(cache2, records, valid_records)}
                   ELSE {Result(UpdateFromStaged(ms, cache2, records, valid_records, pick),
                                cache2, updated, rejected, NoErr, <<"commit", "close">>) :
                            pick \in JoinPicks(cache2, records, valid_records)}

\* ------------------------------------------------------- Python values
\* A Python value: its type t, a number n (the int, the bool as 0 or 1,
\* the float in tenths) and a text s (the str; "nan" or "inf" for the
\* floats that are no number).
PyVal(t, n, s) == [t |-> t, n |-> n, s |-> s]
PyNone == PyVal("none", 0, "")
PyInt(k) == PyVal("int", k, "")
PyFloat(tenths) == PyVal("float", tenths, "")
PyNaN == PyVal("float", 0, "nan")
PyInf == PyVal("float", 0, "inf")
PyStr(x) == PyVal("str", 0, x)
PyBool(b) == PyVal("bool", IF b THEN 1 ELSE 0, "")
\* The empty list: a value float() has no conversion for.
PyList == PyVal("list", 0, "")

\* The outcome of a call: a returned value or a raised exception.
Ret(v) == [raised |-> FALSE, val |-> v, exc |-> ""]
Raise(exc) == [raised |-> TRUE, val |-> PyNone, exc |-> exc]

\* Strings a raw record can carry in a numeric or boolean column.
RawStrings ==
    {"", "abc", "5", "4.8", "-4.8", "inf", "nan",
     "Y", "y", "YES", "yes", "TRUE", "true", "1", "n", "0"}

\* float(str) for the strings above, in tenths; ValueError for the others.
FloatOfStr(x) ==
    CASE x = "5" -> Ret(PyFloat(50))
      [] x = "4.8" -> Ret(PyFloat(48))
      [] x = "-4.8" -> Ret(PyFloat(0 - 48))
      [] x = "1" -> Ret(PyFloat(10))
      [] x = "0" -> Ret(PyFloat(0))
      [] x = "inf" -> Ret(PyInf)
      [] x = "nan" -> Ret(PyNaN)
      [] OTHER -> Raise("ValueError")

\* float(value)
FloatOf(value) ==
    CASE value.t = "float" -> Ret(value)
      [] value.t = "int" -> Ret(PyFloat(10 * value.n))
      [] value.t = "bool" -> Ret(PyFloat(10 * value.n))
      [] value.t = "str" -> FloatOfStr(value.s)
      [] OTHER -> Raise("TypeError")

\* int(x) of a float x: truncation toward zero; NaN and infinity have no int.
IntOfFloat(x) ==
    IF x.s = "nan" THEN Raise("ValueError")
    ELSE IF x.s = "inf" THEN Raise("OverflowError")
    ELSE IF x.n >= 0 THEN Ret(PyInt(x.n \div 10))
    ELSE Ret(PyInt(0 - ((0 - x.n) \div 10)))

\* except (ValueError, TypeError)
Caught(exc) == exc \in {"ValueError", "TypeError"}

\* value is None or value == ''
NoneOrEmpty(value) == value.t = "none" \/ value = PyStr("")

\* safe_float(value, default)
safe_float(value, default) ==
    IF NoneOrEmpty(value) THEN Ret(default)
    ELSE LET f == FloatOf(value)
         IN IF ~ f.raised THEN f
            ELSE IF Caught(f.exc) THEN Ret(default) ELSE f

\* safe_int(value, default): int(float(value))
safe_int(value, default) ==
    IF NoneOrEmpty(value) THEN Ret(default)
    ELSE LET f == FloatOf(value)
             i == IF f.raised THEN f ELSE IntOfFloat(f.val)
         IN IF ~ i.raised THEN i
            ELSE IF Caught(i.exc) THEN Ret(default) ELSE i

\* str.upper() for the strings above.
Upper(x) ==
    CASE x = "y" -> "Y"
      [] x = "yes" -> "YES"
      [] x = "true" -> "TRUE"
      [] x = "n" -> "N"
      [] x = "abc" -> "ABC"
      [] x = "inf" -> "INF"
      [] x = "nan" -> "NAN"
      [] OTHER -> x

\* bool(value) of a value that is no bool, no str and not None.
Truthy(value) ==
    CASE value.t = "int" -> value.n # 0
      [] value.t = "float" -> value.n # 0 \/ value.s # ""
      [] OTHER -> FALSE

\* safe_bool(value, default)
safe_bool(value, default) ==
    IF value.t = "bool" THEN Ret(value)
    ELSE IF value.t = "str"
         THEN Ret(PyBool(Upper(value.s) \in {"Y", "YES", "TRUE", "1"}))
    ELSE IF value.t # "none" THEN Ret(PyBool(Truthy(value)))
    ELSE Ret(default)

\* Values and defaults handed to the three conversions.
PyValues ==
    {PyNone, PyList, PyNaN, PyInf, PyBool(TRUE), PyBool(FALSE)}
    \cup {PyInt(k) : k \in 0..MaxVal}
    \cup {PyFloat(10 * k + 8) : k \in 0..MaxVal}
    \cup {PyStr(x) : x \in RawStrings}

Defaults == {PyNone, PyInt(0), PyInt(MaxVal), PyBool(TRUE), PyBool(FALSE)}

\* ---------------------------------------------------------- cleaners
\* An instant, in minutes since Monday 00:00 of some week.
Instant(day, hour, minute) == (day * 24 + hour) * 60 + minute

\* datetime.hour and datetime.isoweekday() (Monday = 1 .. Sunday = 7).
HourOf(n) == (n \div 60) % 24
IsoWeekday(n) == ((n \div (24 * 60)) % 7) + 1

\* Instants of raw records: a Monday, a Saturday and a Sunday, in the
\* afternoon and in the last hour of the day, around the half hour.
Instants ==
    {Instant(d, h, m) : d \in {0, 5, 6}, h \in {14, 23}, m \in {0, 29, 30, 31}}

\* The values datetime.now() takes: a Tuesday morning and a Saturday night.
Clock == {Instant(1, 9, 12), Instant(5, 22, 47)}

\* A timestamp as a str, as a pandas Timestamp and as a datetime.
TsStr(n) == PyVal("str", n, "timestamp")
TsPandas(n) == PyVal("Timestamp", n, "")
TsDatetime(n) == PyVal("datetime", n, "")

\* A key the record does not have.
Absent == PyVal("absent", 0, "")

\* record.get(field, default)
Get(record, field, default) ==
    IF record[field] = Absent THEN default ELSE record[field]

\* clean_timestamp(timestamp), with the value now of datetime.now():
\* pd.to_datetime of a str (which raises for a text that is no date), the
\* datetime of a pandas Timestamp, a datetime as it is, now for the rest.
clean_timestamp(timestamp, now) ==
    CASE timestamp.t = "str" ->
            IF timestamp.s = "timestamp" THEN Ret(TsPandas(timestamp.n))
            ELSE Raise("ValueError")
      [] timestamp.t = "Timestamp" -> Ret(TsDatetime(timestamp.n))
      [] timestamp.t = "datetime" -> Ret(timestamp)
      [] OTHER -> Ret(TsDatetime(now))

\* clean_external_factors(record), with the value now of datetime.now():
\* the first call that raises ends it. pressure_hpa stands for the five
\* columns that go through safe_float.
clean_external_factors(record, now) ==
    LET ts == clean_timestamp(Get(record, "timestamp", TsDatetime(now)), now)
        pressure == safe_float(Get(record, "pressure_hpa", PyNone), PyNone)
        hour == safe_int(Get(record, "hour_of_day", PyInt(HourOf(now))),
                         PyInt(0))
        day == safe_int(Get(record, "day_of_week", PyInt(IsoWeekday(now))),
                        PyInt(0))
        weekend == safe_bool(Get(record, "weekend",
                                 PyBool(IsoWeekday(now) >= 6)), PyBool(FALSE))
        aqi == safe_int(Get(record, "aqi", PyNone), PyNone)
    IN IF ts.raised THEN ts
       ELSE IF pressure.raised THEN pressure
       ELSE IF hour.raised THEN hour
       ELSE IF day.raised THEN day
       ELSE IF aqi.raised THEN aqi
       ELSE Ret([timestamp |-> ts.val, pressure_hpa |-> pressure.val,
                 hour_of_day |-> hour.val, day_of_week |-> day.val,
                 weekend |-> weekend.val, aqi |-> aqi.val])

\* Timestamps of raw records.
RawTimestampValues ==
    {Absent, PyNone, PyStr("abc")}
    \cup {TsStr(n) : n \in Instants}
    \cup {TsPandas(n) : n \in Instants}
    \cup {TsDatetime(n) : n \in Instants}

\* Raw records of the external-factor flow.
RawExternalRecords ==
    [timestamp : RawTimestampValues,
     pressure_hpa : {Absent, PyStr("4.8")},
     hour_of_day : {Absent, PyNone, PyInt(MaxVal), PyStr("5"), PyInf},
     day_of_week : {Absent, PyInt(MaxVal)},
     weekend : {Absent, PyBool(TRUE), PyStr("n")},
     aqi : {Absent, PyStr("inf")}]

\* -------------------------------------------------------- validators
\* The value is a number to Python's comparisons (a bool counts as 0 or 1).
IsNumber(x) == x.t \in {"int", "float", "bool"}

\* A number in tenths.
Tenths(x) == IF x.t = "float" THEN x.n ELSE 10 * x.n

\* x < bound and x > bound, bound an int: NaN compares False with
\* everything, infinity is above every int, a value that is no number
\* raises TypeError.
LessThan(x, bound) ==
    IF ~ IsNumber(x) THEN Raise("TypeError")
    ELSE IF x.s \in {"nan", "inf"} THEN Ret(PyBool(FALSE))
    ELSE Ret(PyBool(Tenths(x) < Tenths(bound)))

GreaterThan(x, bound) ==
    IF ~ IsNumber(x) THEN Raise("TypeError")
    ELSE IF x.s = "nan" THEN Ret(PyBool(FALSE))
    ELSE IF x.s = "inf" THEN Ret(PyBool(TRUE))
    ELSE Ret(PyBool(Tenths(x) > Tenths(bound)))

\* The range check of the validator, inside its try: the first comparison
\* that raises ends it.
RangeCheck(spec, x) ==
    LET below == IF spec.min = PyNone THEN Ret(PyBool(FALSE))
                 ELSE LessThan(x, spec.min)
        above == IF spec.max = PyNone THEN Ret(PyBool(FALSE))
                 ELSE GreaterThan(x, spec.max)
    IN IF below.raised THEN below
       ELSE IF below.val = PyBool(TRUE) THEN Ret(PyBool(FALSE))
       ELSE IF above.raised THEN above
       ELSE IF above.val = PyBool(TRUE) THEN Ret(PyBool(FALSE))
       ELSE Ret(PyBool(TRUE))

\* The validator _build_field_validator(field_name, spec) returns, applied
\* to x.
build_field_validator(spec, x) ==
    IF spec.type = "bool"
    THEN IF x = PyNone /\ spec.allow_null THEN Ret(PyBool(TRUE))
         ELSE Ret(PyBool(x.t = "bool"))
    ELSE IF x = PyNone THEN Ret(PyBool(spec.allow_null))
    ELSE LET checked == RangeCheck(spec, x)
         IN IF checked.raised /\ checked.exc = "TypeError"
            THEN Ret(PyBool(FALSE))
            ELSE checked

\* The rule of one field: spec.get("type"), "min", "max", "allow_null".
FieldSpec(type, min, max, allow_null) ==
    [type |-> type, min |-> min, max |-> max, allow_null |-> allow_null]

\* A field the table's rules do not name.
NoRule == FieldSpec("", PyNone, PyNone, FALSE)

FieldSpecs ==
    {FieldSpec(type, min, max, allow_null) :
        type \in {"float", "bool"}, min \in {PyNone, PyInt(1)},
        max \in {PyNone, PyInt(MaxVal)}, allow_null \in BOOLEAN}

\* The fields of a record handed to validate_record: a ranged number, a
\* flag and a column no rule names.
RecordFields == {"sleep_hours", "exercise", "notes"}

\* The fields a table's rules name.
RuleFields(table_spec) == {f \in RecordFields : table_spec[f] # NoRule}

\* The loop of validate_record flagging every field of the rules, in the
\* record or not.
ErrorsOf_FlagsAbsent(record, table_spec) ==
    {f \in RuleFields(table_spec) :
        LET checked == build_field_validator(table_spec[f], record[f])
        IN checked.raised \/ checked.val # PyBool(TRUE)}

\* The loop of validate_record: the fields of the rules that are in the
\* record and whose rule does not hold or raises.
ErrorsOf(record, table_spec) ==
    {f \in RuleFields(table_spec) :
        /\ record[f] # Absent
        /\ LET checked == build_field_validator(table_spec[f], record[f])
           IN checked.raised \/ checked.val # PyBool(TRUE)}

\* A table of VALIDATION_RULES (in_rules: table_name in VALIDATION_RULES).
TableSpecs ==
    {[in_rules |-> k, sleep_hours |-> a, exercise |-> b, notes |-> NoRule] :
        k \in BOOLEAN,
        a \in {NoRule} \cup {x \in FieldSpecs : x.type = "float"},
        b \in {NoRule} \cup {x \in FieldSpecs :
                                x.type = "bool" /\ x.min = PyNone
                                /\ x.max = PyNone}}

\* validate_record answering "invalid" for a table without rules.
validate_typed_record_FailClosed(record, table_spec) ==
    IF ~ table_spec.in_rules
    THEN [is_valid |-> FALSE, errors |-> {"table"}]
    ELSE LET errors == ErrorsOf(record, table_spec)
         IN [is_valid |-> errors = {}, errors |-> errors]

\* validate_record(record, table_name) -> (is_valid, errors), over records
\* with typed values and any table of rules.
validate_typed_record(record, table_spec) ==
    IF ~ table_spec.in_rules THEN [is_valid |-> TRUE, errors |-> {}]
    ELSE LET errors == ErrorsOf(record, table_spec)
         IN [is_valid |-> errors = {}, errors |-> errors]

\* Records handed to validate_record.
TypedRecords ==
    [sleep_hours : {Absent, PyNone, PyNaN, PyStr("abc"), PyInt(1),
                    PyInt(MaxVal), PyFloat(8), PyFloat(10 * MaxVal + 1)},
     exercise : {Absent, PyNone, PyBool(TRUE), PyStr("Y")},
     notes : {Absent, PyStr("abc")}]

\* The loop of validate_batch: valid_records.append(record).
RECURSIVE ValidRecords(_, _, _)
ValidRecords(records, table_spec, i) ==
    IF i > Len(records) THEN <<>>
    ELSE (IF validate_typed_record(records[i], table_spec).is_valid
          THEN <<records[i]>> ELSE <<>>)
         \o ValidRecords(records, table_spec, i + 1)

\* The loop of validate_batch: invalid_records.append({'record', 'errors',
\* 'table'}).
RECURSIVE InvalidRecords(_, _, _, _)
InvalidRecords(records, table_name, table_spec, i) ==
    IF i > Len(records) THEN <<>>
    ELSE (IF validate_typed_record(records[i], table_spec).is_valid
          THEN <<>>
          ELSE <<[record |-> records[i],
                  errors |-> validate_typed_record(records[i],
                                                   table_spec).errors,
                  table |-> table_name]>>)
         \o InvalidRecords(records, table_name, table_spec, i + 1)

\* validate_batch keeping every record in the valid list.
validate_typed_batch_KeepsAll(records, table_name, table_spec) ==
    [valid |-> records,
     invalid |-> InvalidRecords(records, table_name, table_spec, 1)]

\* validate_batch(records, table_name) -> (valid_records, invalid_records),
\* over records with typed values and any table of rules.
validate_typed_batch(records, table_name, table_spec) ==
    [valid |-> ValidRecords(records, table_spec, 1),
     invalid |-> InvalidRecords(records, table_name, table_spec, 1)]

\* Records of the batches handed to validate_batch.
CheckedRecords ==
    [sleep_hours : {Absent, PyStr("abc"), PyInt(1)},
     exercise : {PyBool(TRUE), PyStr("Y")},
     notes : {Absent}]

CheckedBatches == UNION {[1..n -> CheckedRecords] : n \in 0..MaxChecked}

\* Names of tables handed to validate_batch.
TableNames == {"measurements_external", "measurements_user"}

\* No function has been called.
NoCall == [fn |-> "", value |-> PyNone, default |-> PyNone, out |-> Ret(PyNone)]

\* -------------------------------------------------------- the pipeline
\* Raw timestamps in minutes: a minute before and a minute after the half
\* of the first hour.
RawTimestamps == {60 + m : m \in {29, 31}}

\* Raw values: one inside the declared range and one outside.
RawVals == {1, MaxVal + 1}

RawRecords ==
    {[person |-> n, person_id |-> 0, timestamp |-> t, val |-> v] :
        n \in Names, t \in RawTimestamps, v \in RawVals}

RawBatches == UNION {[1..n -> RawRecords] : n \in 0..MaxRead}

\* config/validation_rules.yaml: the declared range of the value column.
VALIDATION_RULES ==
    [measurements_external |-> [min |-> 1, max |-> MaxVal, allow_null |-> FALSE],
     measurements_user |-> [min |-> 1, max |-> MaxVal, allow_null |-> FALSE]]

\* _build_field_validator: the range check of one field.
FieldValidator(rule, x) ==
    IF x = NoneVal THEN rule.allow_null
    ELSE IF x < rule.min THEN FALSE
    ELSE IF x > rule.max THEN FALSE
    ELSE TRUE

validate_record(record, table_name) ==
    IF table_name \notin DOMAIN VALIDATION_RULES THEN TRUE
    ELSE FieldValidator(VALIDATION_RULES[table_name], record.val)

\* validate_batch(records, table_name) -> (valid_records, invalid_records)
validate_batch(records, table_name) ==
    [valid |-> SelectSeq(records, LAMBDA r : validate_record(r, table_name)),
     invalid |-> SelectSeq(records, LAMBDA r : ~ validate_record(r, table_name))]

\* format_invalid_for_rejects / format_reject_for_logging over the invalid list.
RECURSIVE FormatInvalid(_, _, _)
FormatInvalid(invalid, table_name, i) ==
    IF i > Len(invalid) THEN <<>>
    ELSE <<[idx |-> i, record |-> invalid[i], error |-> "val failed validation",
            table |-> table_name, wrapped |-> TRUE]>>
         \o FormatInvalid(invalid, table_name, i + 1)

\* The cleaner of a flow followed by prepare_for_insert: the timestamp is
\* rounded to the nearest hour, a minute of 30 or more rounding up.
clean_measurement(record) ==
    [record EXCEPT !.timestamp = (record.timestamp + 30) \div 60]

CleanAll(valid) == [i \in 1..Len(valid) |-> clean_measurement(valid[i])]

\* DATA_SOURCES of the registry, in order.
DATA_SOURCES == <<"external", "user">>

\* The user-tracking flow put before the external-factor flow.
FlowOrder_UserFirst(v) == <<"user", "external">>

\* The order in which the orchestrator v processes the flows:
\* run_pipeline.py calls the external flow, then the user flow; ingest.py
\* iterates over DATA_SOURCES.
FlowOrder(v) ==
    IF v = "ingest" THEN DATA_SOURCES ELSE <<"external", "user">>

ValidatorName(f) ==
    IF f = "external" THEN "measurements_external" ELSE "measurements_user"

\* The loader of a flow: the results it can return.
LoaderOf(f, ms, ps, cache, records, fail) ==
    IF f = "external"
    THEN {upsert_measurement_external(ms, ps, cache, records, fail)}
    ELSE update_measurement_user_data(ms, ps, cache, records, fail)

\* Points at which the store fails in a loader called by a run: no
\* connection, an error in the write, or an error in the commit.
LoaderFails(f) ==
    (IF f = "external" THEN UpsertFails ELSE UpdateFails)
        \cap {"none", "noconn", "write", "commit"}

\* Text of an exception no stage expects (str(e)).
ErrUnexpected == "unexpected error"

\* stats of a flow; error is the 'error' key process_data_source adds when
\* it catches an exception (absent: NoErr).
NewStats(f) ==
    [name |-> ValidatorName(f), read |-> 0, validated |-> 0, rejected |-> 0,
     loaded |-> 0, db_rejected |-> 0, error |-> NoErr]

\* What is known of a flow: whether its reader was invoked, what it read,
\* how many records validation and cleaning turned down, the call of its
\* loader, and the rejections the flow returned to the orchestrator.
NoLoad == [attempted |-> FALSE, read |-> 0, invalid |-> 0, unclean |-> 0,
           called |-> FALSE, records |-> <<>>, pre |-> {}, count |-> 0,
           rejected |-> <<>>, err |-> NoErr, fail |-> "none",
           returned |-> <<>>]

\* Points at which the store can fail during log_rejected_records.
LogFails == {"none", "noconn", "write", "commit"}

\* The row appended for one rejection: reject.get('table', 'unknown'),
\* reject.get('record', {}), reject.get('error', 'Unknown error').
RejectRow(reject) ==
    IF reject.wrapped
    THEN [source_name |-> reject.table, raw_payload |-> reject.record,
          reason |-> reject.error]
    ELSE [source_name |-> "unknown", raw_payload |-> <<>>,
          reason |-> "Unknown error"]

\* The sink keeps the first rows of a batch whose insert failed and counts them.
log_rejected_records_Partial(rows, rejected_records, fail) ==
    IF rejected_records = <<>> THEN [logged |-> 0, rows |-> rows]
    ELSE IF fail = "noconn" THEN [logged |-> 0, rows |-> rows]
    ELSE IF fail = "write"
         THEN [logged |-> 1, rows |-> Append(rows, RejectRow(rejected_records[1]))]
    ELSE IF fail = "commit"
         THEN [logged |-> Len(rejected_records), rows |-> rows]
    ELSE [logged |-> Len(rejected_records),
          rows |-> rows \o [i \in 1..Len(rejected_records) |->
                               RejectRow(rejected_records[i])]]

\* log_rejected_records(rejected_records) -> logged, with the rows appended.
\* logged is set after execute_values and before commit, so a commit that
\* raises is rolled back with logged already counted.
log_rejected_records(rows, rejected_records, fail) ==
    IF rejected_records = <<>> THEN [logged |-> 0, rows |-> rows]
    ELSE IF fail = "noconn" THEN [logged |-> 0, rows |-> rows]
    ELSE IF fail = "write" THEN [logged |-> 0, rows |-> rows]
    ELSE IF fail = "commit"
         THEN [logged |-> Len(rejected_records), rows |-> rows]
    ELSE [logged |-> Len(rejected_records),
          rows |-> rows \o [i \in 1..Len(rejected_records) |->
                               RejectRow(rejected_records[i])]]

\* The total of rejections counts the validation rejects only.
RECURSIVE SumOf_ValidationOnly(_, _, _)
SumOf_ValidationOnly(stats, field, i) ==
    IF i > Len(stats) THEN 0
    ELSE (CASE field = "read" -> stats[i].read
            [] field = "validated" -> stats[i].validated
            [] field = "loaded" -> stats[i].loaded
            [] field = "rejected" -> stats[i].rejected)
         + SumOf_ValidationOnly(stats, field, i + 1)

RECURSIVE SumOf(_, _, _)
SumOf(stats, field, i) ==
    IF i > Len(stats) THEN 0
    ELSE (CASE field = "read" -> stats[i].read
            [] field = "validated" -> stats[i].validated
            [] field = "loaded" -> stats[i].loaded
            [] field = "rejected" -> stats[i].rejected + stats[i].db_rejected)
         + SumOf(stats, field, i + 1)

\* What run_pipeline returns; nothing is returned before the run ends.
NoSummary ==
    [success |-> FALSE, error |-> NoErr, sources_processed |-> 0,
     has_totals |-> FALSE, total_read |-> 0, total_validated |-> 0,
     total_loaded |-> 0, total_rejected |-> 0, source_stats |-> <<>>]

NoLogCall ==
    [called |-> FALSE, fail |-> "none", logged |-> 0, before |-> <<>>,
     passed |-> <<>>]

\* No run of the pipeline has started.
PipelineIdle ==
    /\ pc = "Idle"
    /\ variant \in {"run_pipeline", "ingest"}
    /\ flow_i = 0
    /\ raw = <<>>
    /\ flows = [f \in {"external", "user"} |-> NoLoad]
    /\ all_stats = <<>>
    /\ all_rejected = <<>>
    /\ events = <<>>
    /\ stg_rejects = <<>>
    /\ summary = NoSummary
    /\ raised = <<>>
    /\ log_call = NoLogCall
    /\ fcall = NoCall

\* A run starts on the store as setup_database leaves it.
PipelineInit ==
    /\ persons = SeededPersons
    /\ measurements = {}
    /\ person_cache = {}
    /\ last = [op |-> "init", records |-> <<>>, fail |-> "none", pre |-> {},
               pre_cache |-> {}, count |-> 0, rejected |-> <<>>, err |-> NoErr,
               tx |-> <<>>]
    /\ prev = <<>>
    /\ reruns = 0
    /\ PipelineIdle

CurrentFlow == FlowOrder(variant)[flow_i]

\* process_data_source wraps the whole flow in try/except; the flows of
\* run_pipeline.py have none.
CatchesInFlow(v) == v = "ingest"

\* run_pipeline of ingest.py wraps the run in try/except; run_pipeline of
\* run_pipeline.py has none.
CatchesInRun(v) == v = "ingest"

Exc(f, stage, escaped) ==
    [flow |-> f, stage |-> stage, text |-> ErrUnexpected, escaped |-> escaped]

\* Where the orchestrator goes after flow i of n returned stats: to the
\* next flow, or to the rejection sink after the last one.
AfterFlow(i, n, stats) == IF i = n THEN "Logging" ELSE "Reading"

\* The flow returns (stats, rejected): the orchestrator keeps them.
FinishFlow(stats, rejected) ==
    /\ all_stats' = Append(all_stats, stats)
    /\ all_rejected' = all_rejected \o rejected
    /\ raw' = <<>>
    /\ pc' = AfterFlow(flow_i, Len(FlowOrder(variant)), stats)
    /\ flow_i' = IF flow_i = Len(FlowOrder(variant)) THEN flow_i ELSE flow_i + 1

\* An exception leaves run_pipeline: nothing is returned.
Escape ==
    /\ pc' = "Raised"
    /\ UNCHANGED <<flow_i, raw, all_stats, all_rejected>>

\* run_pipeline is called.
StartRun ==
    /\ pc = "Idle"
    /\ UNCHANGED fcall
    /\ pc' = "Reading"
    /\ flow_i' = 1
    /\ UNCHANGED <<persons, measurements, person_cache, lvars, variant, raw,
                   flows, all_stats, all_rejected, events, stg_rejects, summary,
                   raised, log_call>>

\* The reader of the current flow is invoked. It raises, or returns the raw
\* records; a flow that reads nothing returns its zero stats.
ReadFlow ==
    /\ pc = "Reading"
    /\ UNCHANGED fcall
    /\ events' = Append(events, <<CurrentFlow, "reader">>)
    /\ \/ /\ raised' = Append(raised, Exc(CurrentFlow, "reader",
                                          ~ CatchesInFlow(variant)))
          /\ flows' = [flows EXCEPT ![CurrentFlow].attempted = TRUE]
          /\ IF CatchesInFlow(variant)
             THEN FinishFlow([NewStats(CurrentFlow) EXCEPT
                                  !.error = ErrUnexpected], <<>>)
             ELSE Escape
       \/ \E records \in RawBatches :
            /\ raised' = raised
            /\ flows' = [flows EXCEPT ![CurrentFlow].attempted = TRUE,
                                      ![CurrentFlow].read = Len(records)]
            /\ IF records = <<>>
               THEN FinishFlow(NewStats(CurrentFlow), <<>>)
               ELSE /\ raw' = records
                    /\ pc' = "Loading"
                    /\ UNCHANGED <<flow_i, all_stats, all_rejected>>
    /\ UNCHANGED <<persons, measurements, person_cache, lvars, variant,
                   stg_rejects, summary, log_call>>

\* The records of valid whose index is not in bad, in order.
RECURSIVE KeepGood(_, _, _)
KeepGood(valid, bad, i) ==
    IF i > Len(valid) THEN <<>>
    ELSE (IF i \in bad THEN <<>> ELSE <<valid[i]>>) \o KeepGood(valid, bad, i + 1)

\* process_data_source: the rejection of a record whose cleaning raised.
RECURSIVE CleaningRejects(_, _, _, _)
CleaningRejects(valid, bad, table_name, i) ==
    IF i > Len(valid) THEN <<>>
    ELSE (IF i \in bad
          THEN <<[idx |-> i, record |-> valid[i], error |-> "Cleaning error",
                  table |-> table_name, wrapped |-> TRUE]>>
          ELSE <<>>)
         \o CleaningRejects(valid, bad, table_name, i + 1)

\* validate_clean_and_load / the body of process_data_source: validate,
\* clean, call the loader and wait for it to return or raise. bad are the
\* valid records whose cleaning raises.
ValidateCleanAndLoad ==
    /\ pc = "Loading"
    /\ UNCHANGED fcall
    /\ LET f == CurrentFlow
           checked == validate_batch(raw, ValidatorName(f))
           invalid == FormatInvalid(checked.invalid, ValidatorName(f), 1)
           stats1 == [NewStats(f) EXCEPT !.read = Len(raw),
                                         !.validated = Len(checked.valid),
                                         !.rejected = Len(checked.invalid)]
           seen == [flows[f] EXCEPT !.invalid = Len(checked.invalid)]
       IN \E bad \in SUBSET (1..Len(checked.valid)) :
          LET cleaned == CleanAll(KeepGood(checked.valid, bad, 1))
              stats2 == [stats1 EXCEPT !.rejected = @ + Cardinality(bad)]
              rejected2 == invalid \o CleaningRejects(checked.valid, bad,
                                                      ValidatorName(f), 1)
              seen2 == [seen EXCEPT !.unclean = Cardinality(bad)]
              cleaner_raised ==
                  IF bad = {} THEN <<>>
                  ELSE <<Exc(f, "cleaner", ~ CatchesInFlow(variant))>>
          IN IF bad # {} /\ ~ CatchesInFlow(variant)
             THEN /\ Escape
                  /\ raised' = raised \o cleaner_raised
                  /\ flows' = [flows EXCEPT ![f] = seen2]
                  /\ UNCHANGED <<measurements, person_cache, events>>
             ELSE IF cleaned = <<>>
             THEN /\ FinishFlow(stats2, rejected2)
                  /\ raised' = raised \o cleaner_raised
                  /\ flows' = [flows EXCEPT ![f] =
                       [seen2 EXCEPT !.returned = rejected2]]
                  /\ UNCHANGED <<measurements, person_cache, events>>
             ELSE \/ /\ events' = events \o <<<<f, "loader_call">>,
                                              <<f, "loader_raise">>>>
                     /\ raised' = raised \o cleaner_raised
                                    \o <<Exc(f, "loader", ~ CatchesInFlow(variant))>>
                     /\ flows' = [flows EXCEPT ![f] =
                          [seen2 EXCEPT !.called = TRUE, !.records = cleaned,
                                        !.pre = measurements,
                                        !.err = ErrUnexpected,
                                        !.returned =
                                            IF CatchesInFlow(variant)
                                            THEN rejected2 ELSE <<>>]]
                     /\ UNCHANGED <<measurements, person_cache>>
                     /\ IF CatchesInFlow(variant)
                        THEN FinishFlow([stats2 EXCEPT !.error = ErrUnexpected],
                                        rejected2)
                        ELSE Escape
                  \/ \E fail \in LoaderFails(f) :
                       \E out \in LoaderOf(f, measurements, persons,
                                           person_cache, cleaned, fail) :
                          /\ events' = events \o <<<<f, "loader_call">>,
                                                   <<f, "loader_return">>>>
                          /\ raised' = raised \o cleaner_raised
                          /\ measurements' = out.measurements
                          /\ person_cache' = out.person_cache
                          /\ flows' = [flows EXCEPT ![f] =
                               [seen2 EXCEPT !.called = TRUE,
                                   !.records = cleaned, !.pre = measurements,
                                   !.count = out.count,
                                   !.rejected = out.rejected,
                                   !.err = out.err, !.fail = fail,
                                   !.returned = rejected2 \o out.rejected]]
                          /\ FinishFlow([stats2 EXCEPT !.loaded = out.count,
                                            !.db_rejected = Len(out.rejected)],
                                        rejected2 \o out.rejected)
    /\ UNCHANGED <<persons, lvars, variant, stg_rejects, summary, log_call>>

\* The rejections of both flows go to the rejection sink, when there are any.
LogRejections ==
    /\ pc = "Logging"
    /\ UNCHANGED fcall
    /\ IF all_rejected = <<>>
       THEN UNCHANGED <<stg_rejects, log_call, events>>
       ELSE \E fail \in LogFails :
              LET out == log_rejected_records(stg_rejects, all_rejected, fail)
              IN /\ stg_rejects' = out.rows
                 /\ events' = Append(events, <<"sink", "call">>)
                 /\ log_call' = [called |-> TRUE, fail |-> fail,
                                 logged |-> out.logged, before |-> stg_rejects,
                                 passed |-> all_rejected]
    /\ pc' = "Summarizing"
    /\ UNCHANGED <<persons, measurements, person_cache, lvars, variant, flow_i,
                   raw, flows, all_stats, all_rejected, summary, raised>>

\* The totals are summed and the summary is returned, unless an exception
\* is raised on the way.
Summarize ==
    /\ pc = "Summarizing"
    /\ UNCHANGED fcall
    /\ \/ /\ raised' = raised
          /\ summary' = [success |-> TRUE, error |-> NoErr,
                         sources_processed |-> Len(FlowOrder(variant)),
                         has_totals |-> TRUE,
                         total_read |-> SumOf(all_stats, "read", 1),
                         total_validated |-> SumOf(all_stats, "validated", 1),
                         total_loaded |-> SumOf(all_stats, "loaded", 1),
                         total_rejected |-> SumOf(all_stats, "rejected", 1),
                         source_stats |-> all_stats]
          /\ pc' = "Done"
       \/ /\ raised' = Append(raised, Exc("", "summary", ~ CatchesInRun(variant)))
          /\ IF CatchesInRun(variant)
             THEN /\ summary' = [NoSummary EXCEPT !.error = ErrUnexpected,
                                     !.sources_processed = Len(all_stats)]
                  /\ pc' = "Failed"
             ELSE /\ summary' = summary
                  /\ pc' = "Raised"
    /\ UNCHANGED <<persons, measurements, person_cache, lvars, variant, flow_i,
                   raw, flows, all_stats, all_rejected, events, stg_rejects,
                   log_call>>

PipelineNext ==
    StartRun \/ ReadFlow \/ ValidateCleanAndLoad \/ LogRejections \/ Summarize

PipelineSpec == PipelineInit /\ [][PipelineNext]_vars

\* ----------------------------------------- calls of the pure functions
\* The functions of cleaners/clean.py and validators/validate.py are
\* called on their own, with any argument; a behaviour is one call.
FnInit == PipelineInit /\ variant = "run_pipeline"

FnFrame ==
    UNCHANGED <<persons, measurements, person_cache, lvars, pc, variant, flow_i,
                raw, flows, all_stats, all_rejected, events, stg_rejects,
                summary, raised, log_call>>

CallSafeFloat ==
    /\ fcall.fn = NoCall.fn
    /\ \E value \in PyValues, default \in Defaults :
         fcall' = [fn |-> "safe_float", value |-> value, default |-> default,
                   out |-> safe_float(value, default)]
    /\ FnFrame

CallSafeInt ==
    /\ fcall.fn = NoCall.fn
    /\ \E value \in PyValues, default \in Defaults :
         fcall' = [fn |-> "safe_int", value |-> value, default |-> default,
                   out |-> safe_int(value, default)]
    /\ FnFrame

CallSafeBool ==
    /\ fcall.fn = NoCall.fn
    /\ \E value \in PyValues, default \in Defaults :
         fcall' = [fn |-> "safe_bool", value |-> value, default |-> default,
                   out |-> safe_bool(value, default)]
    /\ FnFrame

CallCleanTimestamp ==
    /\ fcall.fn = NoCall.fn
    /\ \E timestamp \in RawTimestampValues \ {Absent}, now \in Clock :
         fcall' = [fn |-> "clean_timestamp", value |-> timestamp,
                   default |-> TsDatetime(now),
                   out |-> clean_timestamp(timestamp, now)]
    /\ FnFrame

CallCleanExternalFactors ==
    /\ fcall.fn = NoCall.fn
    /\ \E record \in RawExternalRecords, now \in Clock :
         fcall' = [fn |-> "clean_external_factors", value |-> record,
                   default |-> TsDatetime(now),
                   out |-> clean_external_factors(record, now)]
    /\ FnFrame

CallFieldValidator ==
    /\ fcall.fn = NoCall.fn
    /\ \E spec \in FieldSpecs, x \in PyValues :
         fcall' = [fn |-> "field_validator", value |-> x, default |-> spec,
                   out |-> build_field_validator(spec, x)]
    /\ FnFrame

CallValidateRecord ==
    /\ fcall.fn = NoCall.fn
    /\ \E record \in TypedRecords, table_spec \in TableSpecs :
         fcall' = [fn |-> "validate_record", value |-> record,
                   default |-> table_spec,
                   out |-> Ret(validate_typed_record(record, table_spec))]
    /\ FnFrame

CallValidateBatch ==
    /\ fcall.fn = NoCall.fn
    /\ \E records \in CheckedBatches, table_name \in TableNames,
          table_spec \in TableSpecs :
         fcall' = [fn |-> "validate_batch", value |-> records,
                   default |-> [table_name |-> table_name,
                                table_spec |-> table_spec],
                   out |-> Ret(validate_typed_batch(records, table_name,
                                                    table_spec))]
    /\ FnFrame

FnNext ==
    \/ CallSafeFloat \/ CallSafeInt \/ CallSafeBool
    \/ CallCleanTimestamp \/ CallCleanExternalFactors
    \/ CallFieldValidator \/ CallValidateRecord \/ CallValidateBatch

FnSpec == FnInit /\ [][FnNext]_vars

\* ------------------------------------------ calls of the store operations
\* The operations of loaders/load.py called one after the other, in any
\* order, on the store and the identity cache they share.

\* person_name arguments of get_person_id: None, the empty string, the
\* seeded subject and a subject that is seeded later.
LookupNames == {NoPerson, ""} \cup Names

\* not person_name
NoName(person_name) == person_name \in {NoPerson, ""}

\* Points at which the store can fail during a read-only operation.
ReadFails == {"none", "noconn", "cursor"}

\* What an operation did with the store connection: asked is whether
\* get_db_connection was called, tx the calls made on the connection it
\* returned.
Outcome(val, cache, asked, tx, err) ==
    [val |-> val, person_cache |-> cache, asked |-> asked, tx |-> tx,
     err |-> err]

\* _get_person_id_with_cursor(cur, person_name) for a name that is not
\* cached: the id the query returns, cached when there is one.
GetPersonIdWithCursor(ps, cache, person_name) ==
    IF \E p \in ps : p.name = person_name
    THEN LET id == (CHOOSE p \in ps : p.name = person_name).person_id
         IN Outcome(id, cache \cup {[name |-> person_name, person_id |-> id]},
                    TRUE, <<"close">>, NoErr)
    ELSE Outcome(NoneVal, cache, TRUE, <<"close">>, NoErr)

\* get_person_id(person_name) -> person_id or None
get_person_id(ps, cache, person_name, fail) ==
    IF NoName(person_name) THEN Outcome(NoneVal, cache, FALSE, <<>>, NoErr)
    ELSE IF CacheGet(cache, person_name) # 0
    THEN Outcome(CacheGet(cache, person_name), cache, FALSE, <<>>, NoErr)
    ELSE IF fail = "noconn" THEN Outcome(NoneVal, cache, TRUE, <<>>, NoErr)
    ELSE IF fail = "cursor"
    THEN Outcome(NoneVal, cache, TRUE, <<"close">>, ErrCursor)
    ELSE GetPersonIdWithCursor(ps, cache, person_name)

\* clear_person_cache leaving the entries in place.
ClearedCache_Keeps(cache) == cache

\* clear_person_cache(): _person_cache = {}
ClearedCache(cache) == {}

\* get_all_persons() -> the subjects that have coordinates (located), each
\* of them cached; val is their number.
get_all_persons(cache, located, fail) ==
    IF fail = "noconn" THEN Outcome(0, cache, TRUE, <<>>, NoErr)
    ELSE IF fail = "cursor" THEN Outcome(0, cache, TRUE, <<"close">>, ErrCursor)
    ELSE Outcome(Cardinality(located), LoadAllPersonsToCache(cache, located),
                 TRUE, <<"close">>, NoErr)

\* check_table_counts() -> counts; val is the count of measurements.
check_table_counts(ms, cache, fail) ==
    IF fail = "noconn" THEN Outcome(0, cache, TRUE, <<>>, NoErr)
    ELSE IF fail = "cursor" THEN Outcome(0, cache, TRUE, <<"close">>, ErrCursor)
    ELSE Outcome(Cardinality(ms), cache, TRUE, <<"close">>, NoErr)

\* log_rejected_records without its finally clause when the store raises.
SinkTx_NoFinally(rejected_records, fail) ==
    IF rejected_records = <<>> \/ fail = "noconn" THEN <<>>
    ELSE IF fail \in {"write", "commit"} THEN <<"rollback">>
    ELSE <<"commit", "close">>

\* The calls log_rejected_records makes on its connection.
SinkTx(rejected_records, fail) ==
    IF rejected_records = <<>> \/ fail = "noconn" THEN <<>>
    ELSE IF fail \in {"write", "commit"} THEN <<"rollback", "close">>
    ELSE <<"commit", "close">>

\* Batches handed to the loaders here: one record of the first hour, for
\* the subject that is seeded later or for an id, or none.
StoreBatches ==
    {<<>>} \cup {<<r>> : r \in {x \in Records : /\ x.timestamp = 1
                                                /\ x.val = 1
                                                /\ x.person # "Alice"}}

\* Rejection lists handed to the sink here.
SinkBatches ==
    {<<>>, <<Reject(1, [person |-> "Bob", person_id |-> 0, timestamp |-> 1,
                        val |-> 1], ResolveError)>>}

\* The subject seed_persons adds when it is run again for another name.
LaterPerson == [person_id |-> 2, name |-> "Bob"]

StoreInit == PipelineInit /\ variant = "run_pipeline"

\* The record of a call: the operation, its argument, where the store
\* failed, what it did, the cache before it and whether the call before it
\* was clear_person_cache.
StoreCall(fn, value, fail, out) ==
    [fn |-> fn, value |-> value, default |-> fail, out |-> out,
     pre_cache |-> person_cache,
     cleared |-> fcall.fn = "clear_person_cache"]

StoreFrame ==
    UNCHANGED <<lvars, pc, variant, flow_i, raw, flows, all_stats,
                all_rejected, events, summary, raised, log_call>>

GetPersonId ==
    /\ \E person_name \in LookupNames, fail \in ReadFails :
         LET out == get_person_id(persons, person_cache, person_name, fail)
         IN /\ fcall' = StoreCall("get_person_id", person_name, fail, out)
            /\ person_cache' = out.person_cache
    /\ UNCHANGED <<persons, measurements, stg_rejects>>
    /\ StoreFrame

ClearPersonCache ==
    /\ person_cache' = ClearedCache(person_cache)
    /\ fcall' = StoreCall("clear_person_cache", NoPerson, "none",
                          Outcome(NoneVal, ClearedCache(person_cache), FALSE,
                                  <<>>, NoErr))
    /\ UNCHANGED <<persons, measurements, stg_rejects>>
    /\ StoreFrame

GetAllPersons ==
    /\ \E located \in SUBSET persons, fail \in ReadFails :
         LET out == get_all_persons(person_cache, located, fail)
         IN /\ fcall' = StoreCall("get_all_persons", located, fail, out)
            /\ person_cache' = out.person_cache
    /\ UNCHANGED <<persons, measurements, stg_rejects>>
    /\ StoreFrame

CheckTableCounts ==
    /\ \E fail \in ReadFails :
         fcall' = StoreCall("check_table_counts", NoPerson, fail,
                            check_table_counts(measurements, person_cache,
                                               fail))
    /\ UNCHANGED <<persons, measurements, person_cache, stg_rejects>>
    /\ StoreFrame

\* A loader call as a store operation: the loader asks for a connection
\* unless the batch is empty.
LoaderOutcome(records, r) ==
    [val |-> r.count, person_cache |-> r.person_cache,
     asked |-> records # <<>>, tx |-> r.tx, err |-> r.err,
     rejected |-> r.rejected]

StoreUpsert ==
    /\ \E records \in StoreBatches, fail \in UpsertFails :
         LET r == upsert_measurement_external(measurements, persons,
                                              person_cache, records, fail)
         IN /\ fcall' = StoreCall("upsert_measurement_external", records,
                                  fail, LoaderOutcome(records, r))
            /\ measurements' = r.measurements
            /\ person_cache' = r.person_cache
    /\ UNCHANGED <<persons, stg_rejects>>
    /\ StoreFrame

StoreUpdate ==
    /\ \E records \in StoreBatches, fail \in UpdateFails :
         \E r \in update_measurement_user_data(measurements, persons,
                                               person_cache, records, fail) :
            /\ fcall' = StoreCall("update_measurement_user_data", records,
                                  fail, LoaderOutcome(records, r))
            /\ measurements' = r.measurements
            /\ person_cache' = r.person_cache
    /\ UNCHANGED <<persons, stg_rejects>>
    /\ StoreFrame

\* log_rejected_records called on a table of rejections that is empty.
StoreLogRejected ==
    /\ stg_rejects = <<>>
    /\ \E rejected_records \in SinkBatches, fail \in LogFails :
         LET out == log_rejected_records(stg_rejects, rejected_records, fail)
         IN /\ fcall' = StoreCall("log_rejected_records", rejected_records,
                  fail,
                  Outcome(out.logged, person_cache, rejected_records # <<>>,
                          SinkTx(rejected_records, fail),
                          IF rejected_records # <<>> /\ fail = "write"
                          THEN ErrWrite
                          ELSE IF rejected_records # <<>> /\ fail = "commit"
                          THEN ErrCommit ELSE NoErr))
            /\ stg_rejects' = out.rows
    /\ UNCHANGED <<persons, measurements, person_cache>>
    /\ StoreFrame

\* seed_persons adds a subject.
SeedPerson ==
    /\ LaterPerson \notin persons
    /\ persons' = persons \cup {LaterPerson}
    /\ UNCHANGED <<measurements, person_cache, stg_rejects, fcall>>
    /\ StoreFrame

StoreNext ==
    \/ GetPersonId \/ ClearPersonCache \/ GetAllPersons \/ CheckTableCounts
    \/ StoreUpsert \/ StoreUpdate \/ StoreLogRejected \/ SeedPerson

StoreSpec == StoreInit /\ [][StoreNext]_vars

\* ------------------------------------------------------------- actions
\* The measurements table a previous run can have left: rows of seeded
\* subjects, one row per key (UNIQUE(person_id, timestamp), person_id
\* REFERENCES persons).
StoredRows ==
    {[person_id |-> p, timestamp |-> t, env |-> e, beh |-> b] :
        p \in PersonIds(SeededPersons), t \in 1..MaxTs,
        e \in 1..MaxVal, b \in {NoneVal} \cup 1..MaxVal}

WellFormed(ms) ==
    \A r1, r2 \in ms :
        (r1.person_id = r2.person_id /\ r1.timestamp = r2.timestamp) => r1 = r2

Call(op, records, fail, out) ==
    [op |-> op, records |-> records, fail |-> fail, pre |-> measurements,
     pre_cache |-> person_cache,
     count |-> out.count, rejected |-> out.rejected, err |-> out.err,
     tx |-> out.tx]

Summary(records) ==
    [op |-> last.op, ok |-> (last.err = NoErr /\ last.fail # "noconn"),
     count |-> last.count, rejected |-> last.rejected,
     same |-> (records = last.records)]

Init ==
    /\ persons = SeededPersons
    /\ measurements \in {ms \in SUBSET StoredRows : WellFormed(ms)}
    /\ person_cache = {}
    /\ last = [op |-> "init", records |-> <<>>, fail |-> "none", pre |-> {},
               pre_cache |-> {}, count |-> 0, rejected |-> <<>>, err |-> NoErr,
               tx |-> <<>>]
    /\ prev = <<>>
    /\ reruns = 0
    /\ PipelineIdle
    /\ variant = "run_pipeline"

Return(op, records, fail, out) ==
    /\ measurements' = out.measurements
    /\ person_cache' = out.person_cache
    /\ last' = Call(op, records, fail, out)
    /\ UNCHANGED persons

\* A call of upsert_measurement_external with any batch, at any store
\* failure point.
UpsertExternal ==
    /\ last.op = "init"
    /\ \E records \in Batches, fail \in UpsertFails :
         Return("upsert", records, fail,
                upsert_measurement_external(measurements, persons,
                                            person_cache, records, fail))
    /\ UNCHANGED <<prev, reruns>>
    /\ UNCHANGED pvars

\* A call of update_measurement_user_data with any batch, at any store
\* failure point.
UpdateUser ==
    /\ last.op = "init"
    /\ \E records \in Batches, fail \in UpdateFails :
         \E out \in update_measurement_user_data(measurements, persons,
                                                 person_cache, records, fail) :
            Return("update", records, fail, out)
    /\ UNCHANGED <<prev, reruns>>
    /\ UNCHANGED pvars

\* The batches of a later call on the same keys: the batch of the last call
\* again, or that batch with other values.
Revisions(records) ==
    {records} \cup
    {[i \in 1..Len(records) |-> [records[i] EXCEPT !.val = v]] : v \in 1..MaxVal}

CanRerun ==
    /\ last.op # "init"
    /\ last.records # <<>>
    /\ Len(last.records) <= MaxRerunBatch
    /\ reruns < MaxReruns

\* upsert_measurement_external called again on the keys of the last call.
RerunUpsert ==
    /\ CanRerun
    /\ \E records \in Revisions(last.records) :
         /\ Return("upsert", records, "none",
                   upsert_measurement_external(measurements, persons,
                                               person_cache, records, "none"))
         /\ prev' = Append(prev, Summary(records))
    /\ reruns' = reruns + 1
    /\ UNCHANGED pvars

\* update_measurement_user_data called again on the keys of the last call.
RerunUpdate ==
    /\ CanRerun
    /\ \E records \in Revisions(last.records) :
         \E out \in update_measurement_user_data(measurements, persons,
                                                 person_cache, records, "none") :
            /\ Return("update", records, "none", out)
            /\ prev' = Append(prev, Summary(records))
    /\ reruns' = reruns + 1
    /\ UNCHANGED pvars

Next == UpsertExternal \/ UpdateUser \/ RerunUpsert \/ RerunUpdate

Spec == Init /\ [][Next]_vars

\* ====================================================== properties
\* The id the last call resolved for its i-th record (0: unresolved).
PidOf(i) ==
    ResolvePersonId(LoadAllPersonsToCache(last.pre_cache, persons), last.records[i])

TsOf(i) == last.records[i].timestamp

IsRejected(i) ==
    \E j \in 1..Len(last.rejected) : last.rejected[j].idx = i

RejectedWith(i, error) ==
    \E j \in 1..Len(last.rejected) :
        /\ last.rejected[j].idx = i
        /\ last.rejected[j].wrapped
        /\ last.rejected[j].error = error
        /\ last.rejected[j].record.timestamp = last.records[i].timestamp
        /\ last.rejected[j].record.val = last.records[i].val
        /\ last.rejected[j].record.person = last.records[i].person

\* The last call got a connection and a cursor.
Connected == last.fail \notin {"noconn", "cursor"}

\* The last call returned without any store failure.
Succeeded == last.records # <<>> /\ Connected /\ last.err = NoErr

\* The records of the last call have pairwise different keys.
DistinctKeys ==
    \A i, j \in 1..Len(last.records) :
        (PidOf(i) = PidOf(j) /\ TsOf(i) = TsOf(j)) => i = j

\* C1: the measurements table holds at most one row per
\* (person_id, timestamp), whatever loader calls were made and however they
\* ended.
C1_OneRowPerKey ==
    \A r1, r2 \in measurements :
        (r1.person_id = r2.person_id /\ r1.timestamp = r2.timestamp) => r1 = r2

\* An upsert that met an existing row with other values and went through.
C1_Witness ==
    /\ last.op = "upsert"
    /\ Succeeded
    /\ \E i \in 1..Len(last.records) :
         /\ HasRow(last.pre, PidOf(i), TsOf(i))
         /\ \A row \in RowsAt(last.pre, PidOf(i), TsOf(i)) :
               row.env # last.records[i].val /\ row.beh # NoneVal
         /\ HasRow(measurements, PidOf(i), TsOf(i))

\* C2: an update call that reaches its existence check rejects every
\* resolved record whose key has no row with the "must be loaded first"
\* reason and leaves the key without a row; a resolved record whose key has
\* a row is applied and not rejected when the store does not fail (updated
\* count 1 for a batch of one record).
C2_OrderingInvariant ==
    (last.op = "update" /\ Connected /\ last.err # ErrSelect) =>
        \A i \in 1..Len(last.records) :
            PidOf(i) # 0 =>
              /\ ~ HasRow(last.pre, PidOf(i), TsOf(i)) =>
                    /\ RejectedWith(i, OrderError)
                    /\ ~ HasRow(measurements, PidOf(i), TsOf(i))
              /\ (HasRow(last.pre, PidOf(i), TsOf(i)) /\ last.err = NoErr) =>
                    /\ ~ IsRejected(i)
                    /\ last.count >= 1
                    /\ Len(last.records) = 1 => last.count = 1
                    /\ \A row \in RowsAt(measurements, PidOf(i), TsOf(i)) :
                          \E k \in 1..Len(last.records) :
                              /\ PidOf(k) = PidOf(i) /\ TsOf(k) = TsOf(i)
                              /\ row.beh = last.records[k].val

\* The record is rejected by update, loaded by upsert, then accepted by update.
C2_Witness ==
    /\ Len(prev) = 2
    /\ prev[1].op = "update" /\ prev[1].ok /\ prev[1].count = 0
    /\ Len(prev[1].rejected) = 1 /\ prev[1].rejected[1].error = OrderError
    /\ prev[1].same
    /\ prev[2].op = "upsert" /\ prev[2].ok /\ prev[2].count = 1
    /\ prev[2].same
    /\ last.op = "update" /\ Succeeded
    /\ last.count = 1 /\ last.rejected = <<>>

\* C3: update_measurement_user_data creates and deletes no row and changes
\* no environmental column; a behavioral column changes only in a row
\* matched by a record that was not rejected, and takes that record's value.
C3_UpdateFrame ==
    last.op = "update" =>
        /\ Keys(measurements) = Keys(last.pre)
        /\ Cardinality(measurements) = Cardinality(last.pre)
        /\ \A row \in measurements :
             \E old \in last.pre :
                /\ old.person_id = row.person_id
                /\ old.timestamp = row.timestamp
                /\ old.env = row.env
                /\ old.beh # row.beh =>
                     /\ last.err = NoErr
                     /\ \E i \in 1..Len(last.records) :
                          /\ PidOf(i) = row.person_id
                          /\ TsOf(i) = row.timestamp
                          /\ ~ IsRejected(i)
                          /\ row.beh = last.records[i].val

\* An update that changed a behavioral value while another row stayed.
C3_Witness ==
    /\ last.op = "update"
    /\ measurements # last.pre
    /\ Cardinality(measurements) > 1
    /\ last.rejected # <<>>

\* C4: after an upsert that went through, every resolved record's key has
\* exactly one row and its environmental columns are those of that call;
\* when the call before was an upsert of the same batch that went through,
\* the table is what that first call left.
C4_UpsertTwice ==
    (last.op = "upsert" /\ Succeeded) =>
        /\ \A i \in 1..Len(last.records) :
             PidOf(i) # 0 =>
               /\ Cardinality(RowsAt(measurements, PidOf(i), TsOf(i))) = 1
               /\ \A row \in RowsAt(measurements, PidOf(i), TsOf(i)) :
                     row.env = last.records[i].val
        /\ (/\ prev # <<>>
            /\ prev[Len(prev)].op = "upsert"
            /\ prev[Len(prev)].ok
            /\ prev[Len(prev)].same) => measurements = last.pre

\* Two upserts of one key in a row, the second with other values.
C4_Witness ==
    /\ Len(prev) = 1
    /\ prev[1].op = "upsert" /\ prev[1].ok /\ prev[1].count = 1
    /\ ~ prev[1].same
    /\ last.op = "upsert" /\ Succeeded /\ last.count = 1
    /\ measurements # last.pre
    /\ Cardinality(measurements) = Cardinality(last.pre)

\* C5: when an update applied a batch of records with different keys and
\* the same batch is handed to update again, the second call leaves the
\* table unchanged and reports the same updated count and no rejection.
C5_UpdateIdempotent ==
    (/\ last.op = "update" /\ Succeeded /\ DistinctKeys
     /\ prev # <<>>
     /\ prev[Len(prev)].op = "update"
     /\ prev[Len(prev)].ok
     /\ prev[Len(prev)].same
     /\ prev[Len(prev)].count = Len(last.records)
     /\ prev[Len(prev)].rejected = <<>>) =>
        /\ measurements = last.pre
        /\ last.count = prev[Len(prev)].count
        /\ last.rejected = <<>>

\* The same behavioral record applied twice.
C5_Witness ==
    /\ Len(prev) = 1
    /\ prev[1].op = "update" /\ prev[1].ok /\ prev[1].count = 1
    /\ prev[1].same /\ prev[1].rejected = <<>>
    /\ last.op = "update" /\ Succeeded /\ last.count = 1
    /\ \E row \in measurements : row.beh = last.records[1].val

\* The store raised during the bulk write or the commit of the last call.
WriteOrCommitError ==
    last.err \in {ErrWrite, ErrForeignKey, ErrCardinality, ErrCommit}

\* C6: when the store raises during the bulk write or the commit of
\* upsert_measurement_external, the table is what it was before the call and
\* every input record is returned as a rejection carrying the store's error
\* text.
C6_UpsertRollback ==
    (last.op = "upsert" /\ WriteOrCommitError) =>
        /\ measurements = last.pre
        /\ \A i \in 1..Len(last.records) : RejectedWith(i, last.err)

\* A commit that failed after a write that would have changed the table.
C6_Witness ==
    /\ last.op = "upsert"
    /\ last.err = ErrCommit
    /\ Len(last.records) = MaxBatch
    /\ last.count > 0
    /\ \E i \in 1..Len(last.records) :
         /\ PidOf(i) # 0
         /\ \A row \in RowsAt(last.pre, PidOf(i), TsOf(i)) :
               row.env # last.records[i].val

\* C7 (as claimed): when the store raises, or no connection is obtained,
\* during update_measurement_user_data, the table is rolled back and every
\* record of the batch is returned as a rejection carrying an error text.
C7_UpdateFailureRejectsAll ==
    (last.op = "update" /\ last.records # <<>>
     /\ (last.err # NoErr \/ last.fail = "noconn")) =>
        /\ measurements = last.pre
        /\ \A i \in 1..Len(last.records) :
             \E j \in 1..Len(last.rejected) :
                /\ last.rejected[j].idx = i
                /\ last.rejected[j].wrapped
                /\ last.rejected[j].error # NoErr
                /\ last.err # NoErr => last.rejected[j].error = last.err

\* C8 (as claimed): an upsert that went through has created every subject
\* its records name, and has loaded those records.
C8_UpsertCreatesSubject ==
    (last.op = "upsert" /\ Succeeded) =>
        \A i \in 1..Len(last.records) :
            last.records[i].person \in Names =>
              /\ \E p \in persons : p.name = last.records[i].person
              /\ ~ IsRejected(i)
              /\ last.count = Len(last.records)

\* C9: when update_measurement_user_data reaches its resolution loop, every
\* record whose subject does not resolve is returned as a rejection with the
\* resolution reason and no row is written for it; when the store does not
\* fail, every other record of the batch is either rejected for ordering or
\* applied.
C9_UnresolvedRejected ==
    (last.op = "update" /\ last.records # <<>> /\ Connected) =>
        \A i \in 1..Len(last.records) :
            /\ PidOf(i) = 0 =>
                 /\ RejectedWith(i, ResolveError)
                 /\ Keys(measurements) = Keys(last.pre)
            /\ (PidOf(i) # 0 /\ last.err = NoErr) =>
                 \/ RejectedWith(i, OrderError)
                 \/ /\ ~ IsRejected(i)
                    /\ \E row \in RowsAt(measurements, PidOf(i), TsOf(i)) :
                          \E k \in 1..Len(last.records) :
                              /\ PidOf(k) = PidOf(i) /\ TsOf(k) = TsOf(i)
                              /\ row.beh = last.records[k].val

\* A batch with an unknown subject and a record that is applied.
C9_Witness ==
    /\ last.op = "update" /\ Succeeded
    /\ Len(last.records) = 2
    /\ PidOf(1) = 0 /\ RejectedWith(1, ResolveError)
    /\ PidOf(2) # 0 /\ ~ IsRejected(2)
    /\ last.count = 1
    /\ measurements # last.pre

RunEnded == pc \in {"Done", "Failed", "Raised"}

\* Every record flow i read was rejected, by validation, cleaning or the
\* loader (a flow that read nothing included).
AllRejectedIn(i) ==
    all_stats[i].rejected + all_stats[i].db_rejected >= all_stats[i].read

\* C11: a run in which no exception is raised ends in Done with
\* success = true; both flows were executed and each contributes a stats
\* entry; the entry of a flow that read nothing or whose records were all
\* rejected has loaded = 0.
C11_RunCompletes ==
    (RunEnded /\ raised = <<>>) =>
        /\ pc = "Done"
        /\ summary.success
        /\ \A f \in {"external", "user"} : flows[f].attempted
        /\ Len(all_stats) = Len(FlowOrder(variant))
        /\ \A i \in 1..Len(all_stats) :
             /\ all_stats[i].name = ValidatorName(FlowOrder(variant)[i])
             /\ AllRejectedIn(i) => all_stats[i].loaded = 0

\* An exception was raised while flow f was being processed.
RaisedIn(f) == \E i \in 1..Len(raised) : raised[i].flow = f

\* C12: an exception raised while the external-factor flow is processed
\* (by its reader, cleaner or loader) aborts at most that flow: the
\* user-tracking flow is still attempted in the same run, in both
\* orchestrators.
C12_ExternalFailureIsolated ==
    (RunEnded /\ RaisedIn("external")) => flows["user"].attempted

\* C13: no exception escapes run_pipeline: a run in which an exception was
\* raised returns a summary with success = false, the exception text and
\* the stats of the flows that completed, in both orchestrators.
C13_NoEscape ==
    (RunEnded /\ raised # <<>>) =>
        /\ pc # "Raised"
        /\ ~ summary.success
        /\ summary.error = raised[Len(raised)].text
        /\ summary.source_stats = all_stats

ReadBy(f) == flows[f].read
ValidatedBy(f) == flows[f].read - flows[f].invalid
LoadedBy(f) == flows[f].count
ValidationRejectsOf(f) == flows[f].invalid + flows[f].unclean
StoreRejectsOf(f) == Len(flows[f].rejected)
RejectsOf(f) == ValidationRejectsOf(f) + StoreRejectsOf(f)

\* C14: in the summary of every run, total_rejected is the sum over the
\* flows of the validation rejects plus the sum over the flows of the
\* store rejects, and total_read, total_validated and total_loaded are the
\* sums of the flows' counters, whatever part of the input was valid,
\* invalid or failed in the store.
C14_RejectionAccounting ==
    summary.has_totals =>
        /\ summary.total_rejected
             = (ValidationRejectsOf("external") + ValidationRejectsOf("user")) + (StoreRejectsOf("external") + StoreRejectsOf("user"))
        /\ summary.total_rejected = Len(all_rejected)
        /\ summary.total_read = (ReadBy("external") + ReadBy("user"))
        /\ summary.total_validated = (ValidatedBy("external") + ValidatedBy("user"))
        /\ summary.total_loaded = (LoadedBy("external") + LoadedBy("user"))

\* A run with a validation reject in one flow and a store reject in the other.
C14_Witness ==
    /\ pc = "Done"
    /\ summary.has_totals
    /\ (ValidationRejectsOf("external") + ValidationRejectsOf("user")) > 0
    /\ (StoreRejectsOf("external") + StoreRejectsOf("user")) > 0
    /\ summary.total_rejected = (RejectsOf("external") + RejectsOf("user"))

Malformed(value) ==
    \/ value.t = "none"
    \/ value = PyStr("")
    \/ value = PyStr("abc")
    \/ value.t = "list"

\* C18: safe_float, safe_int and safe_bool return without raising for
\* every value and default; they return the default for an input that is
\* None or empty, and the two numeric ones for one that is not parseable;
\* safe_int truncates through float ("4.8" gives 4); safe_bool maps exactly
\* Y, YES, TRUE and 1, in any case, to true.
C18_SafeConversionsTotal ==
    fcall.fn \in {"safe_float", "safe_int", "safe_bool"} =>
        /\ ~ fcall.out.raised
        /\ NoneOrEmpty(fcall.value) => fcall.out.val = fcall.default
        /\ (fcall.fn # "safe_bool" /\ Malformed(fcall.value)) =>
              fcall.out.val = fcall.default
        /\ (fcall.fn = "safe_int" /\ fcall.value = PyStr("4.8")) =>
              fcall.out.val = PyInt(4)
        /\ (fcall.fn = "safe_bool" /\ fcall.value.t = "str"
              /\ fcall.value.s # "") =>
              fcall.out.val = PyBool(fcall.value.s \in
                  {"Y", "y", "YES", "yes", "TRUE", "true", "1"})

\* The value is a point in time (a str holding one, a Timestamp, a datetime).
IsTime(v) ==
    v.t \in {"Timestamp", "datetime"} \/ (v.t = "str" /\ v.s = "timestamp")

\* C16: the cleaners normalize a record's timestamp to the nearest whole
\* hour, a minute of 30 or more rounding up (14:29 gives 14:00, 14:31 gives
\* 15:00, 23:30 gives 00:00 of the next day).
C16_TimestampRounded ==
    LET RoundToHour(n) == ((n + 30) \div 60) * 60
    IN /\ (fcall.fn = "clean_timestamp" /\ IsTime(fcall.value)) =>
             /\ ~ fcall.out.raised
             /\ fcall.out.val.n = RoundToHour(fcall.value.n)
       /\ (fcall.fn = "clean_external_factors"
             /\ IsTime(fcall.value.timestamp) /\ ~ fcall.out.raised) =>
             fcall.out.val.timestamp.n = RoundToHour(fcall.value.timestamp.n)

\* C17: in the output of clean_external_factors hour_of_day is the hour of
\* the output timestamp, day_of_week its ISO weekday and weekend is
\* (day_of_week >= 6), whatever the raw record carries for the three.
C17_DerivedFromTimestamp ==
    (fcall.fn = "clean_external_factors" /\ ~ fcall.out.raised) =>
        /\ fcall.out.val.hour_of_day = PyInt(HourOf(fcall.out.val.timestamp.n))
        /\ fcall.out.val.day_of_week
             = PyInt(IsoWeekday(fcall.out.val.timestamp.n))
        /\ fcall.out.val.weekend
             = PyBool(IsoWeekday(fcall.out.val.timestamp.n) >= 6)

\* The rule declares a numeric range [min, max].
HasRange(spec) == spec.type # "bool" /\ spec.min # PyNone /\ spec.max # PyNone

\* min <= x <= max for a number x: false for NaN and for infinity.
InRange(x, spec) ==
    /\ x.s = ""
    /\ Tenths(spec.min) <= Tenths(x)
    /\ Tenths(x) <= Tenths(spec.max)

\* C19: for a field with a declared range [min, max] a present value v is
\* accepted if and only if min <= v <= max; a present null if and only if
\* the rule has allow_null; a value whose comparison raises a type error
\* makes the record invalid with an error for the field, and nothing raises.
C19_RangeValidation ==
    /\ (fcall.fn = "field_validator" /\ HasRange(fcall.default)) =>
          /\ ~ fcall.out.raised
          /\ fcall.value = PyNone =>
                fcall.out.val = PyBool(fcall.default.allow_null)
          /\ IsNumber(fcall.value) =>
                fcall.out.val = PyBool(InRange(fcall.value, fcall.default))
          /\ (fcall.value # PyNone /\ ~ IsNumber(fcall.value)) =>
                fcall.out.val = PyBool(FALSE)
    /\ (fcall.fn = "validate_record" /\ fcall.default.in_rules
          /\ HasRange(fcall.default.sleep_hours)) =>
          /\ ~ fcall.out.raised
          /\ fcall.value.sleep_hours.t = "str" =>
                /\ ~ fcall.out.val.is_valid
                /\ "sleep_hours" \in fcall.out.val.errors
          /\ IsNumber(fcall.value.sleep_hours) =>
                ("sleep_hours" \in fcall.out.val.errors
                   <=> ~ InRange(fcall.value.sleep_hours,
                                 fcall.default.sleep_hours))

\* The record without one of its fields.
Without(record, f) == [record EXCEPT ![f] = Absent]

\* The field is in the record, has a rule, and the rule rejects its value.
Rejected(record, table_spec, f) ==
    /\ record[f] # Absent
    /\ table_spec.in_rules
    /\ table_spec[f] # NoRule
    /\ build_field_validator(table_spec[f], record[f]) # Ret(PyBool(TRUE))

\* C20: validate_record never flags an absent field: the record is valid if
\* and only if every field present in it that has a declared rule satisfies
\* the rule; a valid record without one of its fields is valid, and the
\* empty record is valid for every schema.
C20_AbsentNotFlagged ==
    fcall.fn = "validate_record" =>
        LET record == fcall.value
            table_spec == fcall.default
        IN /\ \A f \in fcall.out.val.errors : record[f] # Absent
           /\ fcall.out.val.is_valid
                <=> \A f \in RecordFields : ~ Rejected(record, table_spec, f)
           /\ fcall.out.val.is_valid =>
                \A f \in RecordFields :
                    validate_typed_record(Without(record, f),
                                          table_spec).is_valid
           /\ (\A f \in RecordFields : record[f] = Absent) =>
                fcall.out.val.is_valid

\* validate_record has returned valid for a record that lacks a field its
\* table has a rule for, under rules that reject a null.
C20_Witness ==
    /\ fcall.fn = "validate_record"
    /\ fcall.default.in_rules
    /\ fcall.default.sleep_hours # NoRule
    /\ ~ fcall.default.sleep_hours.allow_null
    /\ fcall.value.sleep_hours = Absent
    /\ fcall.value.exercise = PyBool(TRUE)
    /\ fcall.out.val.is_valid

\* The table has no declared rules: its name is not in VALIDATION_RULES,
\* or its entry names no field.
NoRules(table_spec) == ~ table_spec.in_rules \/ RuleFields(table_spec) = {}

\* C21: for a schema name with no declared rules validate_record returns
\* (true, no errors) for every record, and validate_batch returns all input
\* records as valid, in input order, with an empty invalid list.
C21_FailOpen ==
    /\ (fcall.fn = "validate_record" /\ NoRules(fcall.default)) =>
          /\ ~ fcall.out.raised
          /\ fcall.out.val.is_valid
          /\ fcall.out.val.errors = {}
    /\ (fcall.fn = "validate_batch" /\ NoRules(fcall.default.table_spec)) =>
          /\ ~ fcall.out.raised
          /\ fcall.out.val.valid = fcall.value
          /\ fcall.out.val.invalid = <<>>

\* validate_batch has returned a batch of records that no number rule would
\* accept, for a table name that is not in the rules.
C21_Witness ==
    /\ fcall.fn = "validate_batch"
    /\ ~ fcall.default.table_spec.in_rules
    /\ Len(fcall.value) = MaxChecked
    /\ fcall.value[1].sleep_hours = PyStr("abc")
    /\ fcall.value[2].exercise = PyStr("Y")
    /\ fcall.value[1] # fcall.value[MaxChecked]
    /\ fcall.out.val.valid = fcall.value

\* validate_record accepts the record under the rules of the call.
Accepts(record) ==
    validate_typed_record(record, fcall.default.table_spec).is_valid

\* C22: validate_batch partitions its input: the lengths of the two lists
\* add up to the length of the input, each list keeps the input order, a
\* record is in invalid exactly when validate_record rejects it, and every
\* invalid entry carries the record, a non-empty error list and the schema
\* name.
C22_BatchPartition ==
    fcall.fn = "validate_batch" =>
        LET records == fcall.value
            valid == fcall.out.val.valid
            invalid == fcall.out.val.invalid
        IN /\ Len(valid) + Len(invalid) = Len(records)
           /\ valid = SelectSeq(records, Accepts)
           /\ [i \in 1..Len(invalid) |-> invalid[i].record]
                = SelectSeq(records, LAMBDA r : ~ Accepts(r))
           /\ \A i \in 1..Len(invalid) :
                /\ invalid[i].errors # {}
                /\ invalid[i].table = fcall.default.table_name

\* validate_batch has split a batch into two different invalid records
\* around a valid one.
C22_Witness ==
    /\ fcall.fn = "validate_batch"
    /\ Len(fcall.value) = MaxChecked
    /\ Len(fcall.out.val.valid) = 1
    /\ Len(fcall.out.val.invalid) = 2
    /\ fcall.out.val.valid[1] = fcall.value[2]
    /\ fcall.out.val.invalid[1].record # fcall.out.val.invalid[2].record

\* The last operation was get_person_id for a name.
LookedUp == fcall.fn = "get_person_id" /\ ~ NoName(fcall.value)

\* C23: get_person_id returns None for an empty or missing name; for a
\* cached name it returns the cached id without asking for a connection; a
\* lookup that finds no subject or hits a store error returns None and adds
\* nothing to the cache; clear_person_cache leaves the cache empty, and the
\* lookup of any name after it asks the store.
C23_CacheReadThrough ==
    /\ (fcall.fn = "get_person_id" /\ NoName(fcall.value)) =>
          /\ fcall.out.val = NoneVal
          /\ ~ fcall.out.asked
          /\ person_cache = fcall.pre_cache
    /\ (LookedUp /\ CacheGet(fcall.pre_cache, fcall.value) # 0) =>
          /\ fcall.out.val = CacheGet(fcall.pre_cache, fcall.value)
          /\ ~ fcall.out.asked
          /\ fcall.out.tx = <<>>
          /\ person_cache = fcall.pre_cache
    /\ (LookedUp /\ CacheGet(fcall.pre_cache, fcall.value) = 0) =>
          /\ fcall.out.asked
          /\ (fcall.default # "none"
              \/ ~ \E p \in persons : p.name = fcall.value) =>
                /\ fcall.out.val = NoneVal
                /\ person_cache = fcall.pre_cache
          /\ fcall.out.val # NoneVal =>
                /\ [person_id |-> fcall.out.val, name |-> fcall.value]
                     \in persons
                /\ CacheGet(person_cache, fcall.value) = fcall.out.val
    /\ fcall.fn = "clear_person_cache" => person_cache = {}
    /\ (LookedUp /\ fcall.cleared) => fcall.out.asked

\* A name is looked up right after a cache that held it was cleared, and
\* the store answers.
C23_Witness ==
    /\ LookedUp
    /\ fcall.cleared
    /\ fcall.value = LaterPerson.name
    /\ fcall.out.asked
    /\ fcall.out.val = LaterPerson.person_id
    /\ person_cache = {[name |-> LaterPerson.name,
                        person_id |-> LaterPerson.person_id]}

\* The operation of the last call got a connection.
Acquired == fcall.fn # "" /\ fcall.out.asked /\ fcall.default # "noconn"

\* The last call was of an operation that writes.
Writing ==
    fcall.fn \in {"upsert_measurement_external",
                  "update_measurement_user_data", "log_rejected_records"}

\* C26: every store operation that acquires a connection releases it
\* exactly once, as the last thing it does with it, on the success path and
\* on every error path, and an operation that acquires none releases none; a
\* writing operation ends its transaction with a commit when no error
\* occurred and with a rollback otherwise.
C26_ConnectionReleased ==
    /\ Acquired =>
          /\ Cardinality({i \in 1..Len(fcall.out.tx) :
                             fcall.out.tx[i] = "close"}) = 1
          /\ fcall.out.tx[Len(fcall.out.tx)] = "close"
    /\ (fcall.fn # "" /\ ~ Acquired) => fcall.out.tx = <<>>
    /\ (Acquired /\ Writing) =>
          fcall.out.tx = IF fcall.out.err = NoErr
                         THEN <<"commit", "close">>
                         ELSE <<"rollback", "close">>

\* The sink has rolled back after a commit that raised, in a store that
\* holds a measurement.
C26_Witness ==
    /\ fcall.fn = "log_rejected_records"
    /\ fcall.default = "commit"
    /\ fcall.out.tx = <<"rollback", "close">>
    /\ measurements # {}

\* C24: after any sequence of loader calls every measurement row's
\* person_id is the id of a subject row, also when an input record carries a
\* person_id that matches no subject; and no subject is deleted.
C24_NoOrphanRow ==
    /\ \A row \in measurements : row.person_id \in PersonIds(persons)
    /\ SeededPersons \subseteq persons

\* The loader was handed a record carrying the id of no subject next to a
\* record of the seeded subject, and the store refused the statement.
C24_Witness ==
    /\ last.op = "upsert"
    /\ Len(last.records) = 2
    /\ last.records[1].person_id \in PersonIds(persons)
    /\ last.records[2].person_id \notin PersonIds(persons) \cup {0}
    /\ last.err = ErrForeignKey
    /\ measurements = last.pre

\* C29: upsert_measurement_external leaves behavioral data untouched: every
\* row that was there before the call is there after it with the behavioral
\* value it had, also when the call refreshes the row; so an environmental
\* load, a behavioral update and an environmental re-load end with the
\* behavioral value of the update in the row.
C29_BehavioralKept ==
    last.op = "upsert" =>
        \A row \in last.pre :
            \E kept \in RowsAt(measurements, row.person_id, row.timestamp) :
                kept.beh = row.beh

\* An environmental load, a behavioral update that applied and an
\* environmental re-load with another value: the row has the new
\* environmental value and still has a behavioral value.
C29_Witness ==
    /\ last.op = "upsert" /\ Succeeded
    /\ Len(prev) = 2
    /\ prev[1].op = "upsert" /\ prev[1].ok
    /\ prev[2].op = "update" /\ prev[2].ok /\ prev[2].count = 1
    /\ Len(last.records) = 1
    /\ \E row \in RowsAt(measurements, PidOf(1), TsOf(1)) :
          /\ row.env = last.records[1].val
          /\ row.beh # NoneVal
          /\ \E old \in RowsAt(last.pre, PidOf(1), TsOf(1)) :
                old.env # row.env /\ old.beh = row.beh

\* The number of entries of the rejected list for the i-th input record.
TimesRejected(i) ==
    Cardinality({j \in 1..Len(last.rejected) : last.rejected[j].idx = i})

\* C27: upsert_measurement_external accounts for every input record exactly
\* once: for every non-empty batch and every outcome the inserted count plus
\* the length of the rejected list is the number of input records, no record
\* is in rejected twice, and no record is counted as inserted and rejected.
C27_UpsertAccountsOnce ==
    (last.op = "upsert" /\ last.records # <<>>) =>
        /\ last.count + Len(last.rejected) = Len(last.records)
        /\ \A i \in 1..Len(last.records) : TimesRejected(i) <= 1
        /\ last.count
             <= Cardinality({i \in 1..Len(last.records) : ~ IsRejected(i)})

\* C28: update_measurement_user_data accounts for every input record exactly
\* once: for every non-empty batch, also one with two records for the same
\* (person_id, timestamp), and every outcome the updated count plus the
\* length of the rejected list is the number of input records.
C28_UpdateAccountsOnce ==
    (last.op = "update" /\ last.records # <<>>) =>
        last.count + Len(last.rejected) = Len(last.records)

\* The positions in the run at which the rejection sink was invoked.
SinkCalls == {i \in 1..Len(events) : events[i] = <<"sink", "call">>}

\* The reader of the flow was invoked before position i of the run.
ReadBefore(f, i) == \E j \in 1..(i - 1) : events[j] = <<f, "reader">>

\* C25: in every run in which at least one record is rejected the rejection
\* sink is invoked exactly once, only after both flows have finished, and is
\* passed exactly the rejections of both flows, the external flow's before
\* the user flow's, validation rejects and store rejects included.
C25_SinkOncePerRun ==
    /\ Cardinality(SinkCalls) <= 1
    /\ \A i \in SinkCalls :
          /\ ReadBefore("external", i) /\ ReadBefore("user", i)
          /\ \A j \in (i + 1)..Len(events) : events[j][1] = "sink"
    /\ log_call.called =>
          /\ SinkCalls # {}
          /\ log_call.passed
               = flows["external"].returned \o flows["user"].returned
          /\ Len(log_call.passed) = RejectsOf("external") + RejectsOf("user")
    /\ (RunEnded /\ RejectsOf("external") + RejectsOf("user") > 0) =>
          log_call.called

\* C30: every entry a loader returns in its rejected list, on every path and
\* also when no connection can be obtained, wraps the input record with a
\* non-empty reason and the target table name, so that the row the sink
\* appends for it carries that table name, the payload and that reason and
\* not 'unknown', an empty payload and 'Unknown error'.
C30_RejectionsWrapped ==
    /\ \A f \in {"external", "user"} :
          \A i \in 1..Len(flows[f].rejected) :
             /\ flows[f].rejected[i].wrapped
             /\ flows[f].rejected[i].error # NoErr
             /\ flows[f].rejected[i].table = TableName
             /\ flows[f].rejected[i].record.timestamp
                  = flows[f].records[flows[f].rejected[i].idx].timestamp
    /\ \A i \in 1..Len(stg_rejects) :
          /\ stg_rejects[i].source_name # "unknown"
          /\ DOMAIN stg_rejects[i].raw_payload # {}
          /\ stg_rejects[i].reason # "Unknown error"

====
